---- MODULE Spec2Model ----
(***************************************************************************)
(* GeoBioTool: raster diversity runs (combined, Shannon, Simpson, run_gui) *)
(* and point-cloud runs (FHD, Rumple, LAI/VCI).                            *)
(*                                                                         *)
(* Text is a sequence of one-character strings.  Heights z are counted in  *)
(* quarters of a unit, so that the 0.5-wide height bin is 2 and            *)
(* z0 = 3 is 12; x, y and the grid size are integers.                      *)
(***************************************************************************)
EXTENDS Integers, Sequences, FiniteSets, TLC

VARIABLES
    alg,          \* which algorithm this run executes
    pc,           \* position of the run inside its handler
    err,          \* "" or the error the run ended with
    sel_tokens,   \* the selector tokens the user typed (input, never changed)
    class_input,  \* CLASSES as text
    flat,         \* the flattened raster samples (NaN/Inf already 0)
    selected,     \* result of parse_classes
    valid,        \* retained samples, in raster order
    cnt,          \* Counter(valid): <<key, count>> pairs in first-occurrence order
    total,        \* sum(cnt.values())
    report,       \* the text report written to OUTPUT
    df,           \* the point cloud: records [x, y, z, n], n points at (x, y, z)
    use_grid,     \* USE_GRID
    gsz,          \* GRID_SIZE
    cells,        \* the cells the run forms, in the order it visits them
    results,      \* the rows of the result table, in table order
    evaluated,    \* sizes of the cells a metric function was evaluated on
    csv,          \* OUTPUT_CSV
    png           \* the heatmaps written (OUTPUT_PNG...)

rasterVars == <<sel_tokens, class_input, flat, selected, valid, cnt, total, report>>

cloudVars == <<df, use_grid, gsz, cells, results, evaluated, csv, png>>

vars == <<alg, pc, err, rasterVars, cloudVars>>

-----------------------------------------------------------------------------
(* Bounds of the model. *)
MaxTokens == 2
MaxSamples == 4
MaxClusters == 2

(* Class ids a selector token may name, and the values a raster sample takes. *)
SelNums == {0, 1, 3, 12}
SampleVals == {0, 1, 3, 12, 255}

-----------------------------------------------------------------------------
(* Python helpers used by parse_classes. *)

DigitChars == <<"0", "1", "2", "3", "4", "5", "6", "7", "8", "9">>

IsDigit(c) == \E i \in 1..10 : DigitChars[i] = c

DigitVal(c) == (CHOOSE i \in 1..10 : DigitChars[i] = c) - 1

RECURSIVE SplitAcc(_, _, _, _)
SplitAcc(s, sep, cur, acc) ==
    IF s = <<>> THEN Append(acc, cur)
    ELSE IF Head(s) = sep THEN SplitAcc(Tail(s), sep, <<>>, Append(acc, cur))
    ELSE SplitAcc(Tail(s), sep, Append(cur, Head(s)), acc)

\* str.split(sep): "" gives [""], "a,,b" gives ["a", "", "b"]
split(s, sep) == SplitAcc(s, sep, <<>>, <<>>)

RECURSIVE lstrip(_)
lstrip(s) == IF s # <<>> /\ Head(s) = " " THEN lstrip(Tail(s)) ELSE s

RECURSIVE rstrip(_)
rstrip(s) ==
    IF s # <<>> /\ s[Len(s)] = " " THEN rstrip(SubSeq(s, 1, Len(s) - 1)) ELSE s

\* str.strip()
strip(s) == rstrip(lstrip(s))

RECURSIVE DigitsValue(_, _)
DigitsValue(s, acc) ==
    IF s = <<>> THEN acc ELSE DigitsValue(Tail(s), 10 * acc + DigitVal(Head(s)))

\* int(text): surrounding blanks are ignored, then one or more decimal digits;
\* anything else raises ValueError.
py_int(s) ==
    LET u == strip(s) IN
    IF u # <<>> /\ \A i \in 1..Len(u) : IsDigit(u[i])
    THEN [ok |-> TRUE, val |-> DigitsValue(u, 0)]
    ELSE [ok |-> FALSE, val |-> 0]

\* range(start, stop) as a set
range(start, stop) == start..(stop - 1)

NoneValue == [isNone |-> TRUE, elems |-> {}]
SetValue(S) == [isNone |-> FALSE, elems |-> S]

\* ParseToken with the range taken without its upper end (range(start, end)).
ParseTokenOpenRange(token0) ==
    LET token == strip(token0) IN
    IF \E i \in 1..Len(token) : token[i] = "-"
    THEN LET parts == split(token, "-") IN
         IF Len(parts) # 2 \/ ~py_int(parts[1]).ok \/ ~py_int(parts[2]).ok
         THEN [ok |-> FALSE, elems |-> {}]
         ELSE [ok |-> TRUE,
               elems |-> range(py_int(parts[1]).val, py_int(parts[2]).val)]
    ELSE IF py_int(token).ok
         THEN [ok |-> TRUE, elems |-> {py_int(token).val}]
         ELSE [ok |-> FALSE, elems |-> {}]

\* One pass of the loop body of parse_classes on one token.
ParseToken(token0) ==
    LET token == strip(token0) IN
    IF \E i \in 1..Len(token) : token[i] = "-"
    THEN LET parts == split(token, "-") IN
         IF Len(parts) # 2 \/ ~py_int(parts[1]).ok \/ ~py_int(parts[2]).ok
         THEN [ok |-> FALSE, elems |-> {}]
         ELSE [ok |-> TRUE,
               elems |-> range(py_int(parts[1]).val, py_int(parts[2]).val + 1)]
    ELSE IF py_int(token).ok
         THEN [ok |-> TRUE, elems |-> {py_int(token).val}]
         ELSE [ok |-> FALSE, elems |-> {}]

\* parse_classes: None for empty text, otherwise the union of the tokens' classes;
\* raised when a token makes int() or the two-name unpacking raise.
parse_classes(s) ==
    IF s = <<>> THEN [raised |-> FALSE, value |-> NoneValue]
    ELSE LET toks == split(s, ",")
             res == [i \in 1..Len(toks) |-> ParseToken(toks[i])]
         IN IF \E i \in 1..Len(toks) : ~res[i].ok
            THEN [raised |-> TRUE, value |-> NoneValue]
            ELSE [raised |-> FALSE,
                  value |-> SetValue(UNION {res[i].elems : i \in 1..Len(toks)})]

-----------------------------------------------------------------------------
(* The selector text a user types, built from tokens. *)

RECURSIVE Digits(_)
Digits(n) ==
    IF n < 10 THEN <<DigitChars[n + 1]>>
    ELSE Digits(n \div 10) \o <<DigitChars[(n % 10) + 1]>>

TokenKinds == {"int", "range", "padint", "word", "empty", "neg", "triple"}

RenderToken(t) ==
    CASE t.kind = "int" -> Digits(t.a)
      [] t.kind = "range" -> Digits(t.a) \o <<"-">> \o Digits(t.b)
      [] t.kind = "padint" -> <<" ">> \o Digits(t.a) \o <<" ">>
      [] t.kind = "word" -> <<"x">>
      [] t.kind = "empty" -> <<>>
      [] t.kind = "neg" -> <<"-">> \o Digits(t.a)
      [] t.kind = "triple" -> Digits(t.a) \o <<"-">> \o Digits(t.b) \o <<"-">> \o Digits(t.a)

RECURSIVE RenderSelector(_)
RenderSelector(ts) ==
    IF ts = <<>> THEN <<>>
    ELSE IF Len(ts) = 1 THEN RenderToken(ts[1])
    ELSE RenderToken(ts[1]) \o <<",">> \o RenderSelector(Tail(ts))

Tokens ==
    [kind : {"int", "padint"}, a : SelNums, b : {0}]
    \cup [kind : {"range"}, a : SelNums, b : SelNums]
    \cup [kind : {"word", "empty"}, a : {0}, b : {0}]
    \cup [kind : {"neg"}, a : {1}, b : {0}]
    \cup [kind : {"triple"}, a : {1}, b : {3}]

SeqsUpTo(S, n) == UNION {[1..k -> S] : k \in 0..n}

Tok(kind, a, b) == [kind |-> kind, a |-> a, b |-> b]

\* The selectors the raster runs are started with.
SelectorCases ==
    { <<>>,
      <<Tok("int", 1, 0)>>,
      <<Tok("int", 1, 0), Tok("int", 3, 0)>>,
      <<Tok("range", 0, 1)>>,
      <<Tok("range", 1, 3), Tok("int", 1, 0)>>,
      <<Tok("range", 3, 1)>>,
      <<Tok("int", 12, 0)>>,
      <<Tok("word", 0, 0)>> }

-----------------------------------------------------------------------------
(* Frequency table and report of the raster runs. *)

RasterAlgs == {"combined", "shannon", "simpson"}

InWindow(v) == v > 0 /\ v < 255

\* flat[(flat > 0) & (flat < 255)]
WindowFilter(s) == SelectSeq(s, InWindow)

\* flat[np.isin(flat, list(selected))]
IsinFilter(s, sel) == LET Member(v) == v \in sel IN SelectSeq(s, Member)

\* The branch each algorithm takes between the two filters: the combined
\* algorithm tests "selected is not None", Shannon and Simpson test the
\* truth value of the set, which is false for None and for the empty set.
UsesSelector(a, sel) ==
    IF a = "combined" THEN ~sel.isNone
    ELSE ~sel.isNone /\ sel.elems # {}

FilterFor(a, s, sel) ==
    IF UsesSelector(a, sel) THEN IsinFilter(s, sel.elems) ELSE WindowFilter(s)

RECURSIVE CounterAcc(_, _)
CounterAcc(s, acc) ==
    IF s = <<>> THEN acc
    ELSE LET k == Head(s) IN
         IF \E i \in 1..Len(acc) : acc[i][1] = k
         THEN CounterAcc(Tail(s),
                [i \in 1..Len(acc) |->
                    IF acc[i][1] = k THEN <<k, acc[i][2] + 1>> ELSE acc[i]])
         ELSE CounterAcc(Tail(s), Append(acc, <<k, 1>>))

\* Counter(valid): a dict, so its items keep the order of first occurrence
Counter(s) == CounterAcc(s, <<>>)

RECURSIVE SumCounts(_)
SumCounts(c) == IF c = <<>> THEN 0 ELSE c[1][2] + SumCounts(Tail(c))

\* sorted(items) on the class id: ascending
RECURSIVE InsertByKey(_, _)
InsertByKey(sorted, e) ==
    IF sorted = <<>> THEN <<e>>
    ELSE IF e[1] < Head(sorted)[1] THEN <<e>> \o sorted
    ELSE <<Head(sorted)>> \o InsertByKey(Tail(sorted), e)

RECURSIVE SortByClass(_)
SortByClass(c) ==
    IF c = <<>> THEN <<>>
    ELSE InsertByKey(SortByClass(SubSeq(c, 1, Len(c) - 1)), c[Len(c)])

\* sorted(items, key=proportion, reverse=True): the sort is stable, and
\* reverse=True keeps the original order of items with equal keys.  All
\* proportions share the divisor total, so they compare as the counts do.
RECURSIVE InsertByProp(_, _)
InsertByProp(sorted, e) ==
    IF sorted = <<>> THEN <<e>>
    ELSE IF e[2] > Head(sorted)[2] THEN <<e>> \o sorted
    ELSE <<Head(sorted)>> \o InsertByProp(Tail(sorted), e)

RECURSIVE SortByProp(_)
SortByProp(c) ==
    IF c = <<>> THEN <<>>
    ELSE InsertByProp(SortByProp(SubSeq(c, 1, Len(c) - 1)), c[Len(c)])

RECURSIVE SumSquares(_)
SumSquares(c) == IF c = <<>> THEN 0 ELSE c[1][2] * c[1][2] + SumSquares(Tail(c))

PositiveCount(e) == e[2] > 0

\* an index the report does not hold
NoIndex == [present |-> FALSE]

\* -sum(p * np.log(p) for p in ps if p > 0) with ps = [v / total ...]: kept as
\* its terms, one <<v, total>> for every proportion p = v / total above 0
shannon(c, t) ==
    [present |-> TRUE,
     terms |-> [i \in DOMAIN SelectSeq(c, PositiveCount) |->
                  <<SelectSeq(c, PositiveCount)[i][2], t>>]]

\* the Shannon sum is 0 exactly when every term has p = 1 (p * log(p) = 0)
ShannonIsZero(s) == \A i \in DOMAIN s.terms : s.terms[i][1] = s.terms[i][2]

\* a Simpson index that sums the proportions unsquared: 1 - sum(p for p in ps)
simpsonUnsquared(c, t) ==
    [present |-> TRUE, sumsq |-> SumCounts(c) * t, tsq |-> t * t]

\* 1 - sum(p * p for p in ps) with ps = [v / total ...]: kept as the exact
\* fraction 1 - sumsq / tsq, sumsq the sum of the squared counts, tsq = total^2
simpson(c, t) ==
    [present |-> TRUE, sumsq |-> SumSquares(c), tsq |-> t * t]

NoReport ==
    [written |-> FALSE, total |-> 0, by_class |-> <<>>, by_prop |-> <<>>,
     s_idx |-> NoIndex, si_idx |-> NoIndex]

\* the text written by processAlgorithm: the total, the index or indices of the
\* algorithm and the two views
FullReport(a, c, t) ==
    [written |-> TRUE, total |-> t, by_class |-> SortByClass(c), by_prop |-> SortByProp(c),
     s_idx |-> IF a \in {"combined", "shannon"} THEN shannon(c, t) ELSE NoIndex,
     si_idx |-> IF a \in {"combined", "simpson"} THEN simpson(c, t) ELSE NoIndex]

\* run_gui writes the total and the two indices only
GuiReport(c, t) ==
    [written |-> TRUE, total |-> t, by_class |-> <<>>, by_prop |-> <<>>,
     s_idx |-> shannon(c, t), si_idx |-> simpson(c, t)]

-----------------------------------------------------------------------------
(* Raster runs. *)

RasterStart(a, ts, f) ==
    /\ alg = a
    /\ pc = "start"
    /\ err = ""
    /\ sel_tokens = ts
    /\ class_input = RenderSelector(ts)
    /\ flat = f
    /\ selected = NoneValue
    /\ valid = <<>>
    /\ cnt = <<>>
    /\ total = 0
    /\ report = NoReport
    /\ df = {}
    /\ use_grid = FALSE
    /\ gsz = 0
    /\ cells = <<>>
    /\ results = <<>>
    /\ evaluated = {}
    /\ csv = [written |-> FALSE, rows |-> <<>>]
    /\ png = <<>>

\* selected = self.parse_classes(class_input); a ValueError ends the run
ParseClasses ==
    /\ pc = "start"
    /\ alg \in RasterAlgs
    /\ LET r == parse_classes(class_input) IN
       IF r.raised
       THEN /\ pc' = "failed"
            /\ err' = "ValueError"
            /\ UNCHANGED selected
       ELSE /\ pc' = "parsed"
            /\ selected' = r.value
            /\ UNCHANGED err
    /\ UNCHANGED <<alg, sel_tokens, class_input, flat, valid, cnt, total, report, cloudVars>>

\* class filtering of the flattened array
FilterSamples ==
    /\ pc = "parsed"
    /\ alg \in RasterAlgs
    /\ valid' = FilterFor(alg, flat, selected)
    /\ pc' = "filtered"
    /\ UNCHANGED <<alg, err, sel_tokens, class_input, flat, selected, cnt, total, report, cloudVars>>

\* cnt = Counter(valid); total = sum(cnt.values()); total == 0 raises
CountClasses ==
    /\ pc = "filtered"
    /\ alg \in RasterAlgs
    /\ cnt' = Counter(valid)
    /\ total' = SumCounts(Counter(valid))
    /\ IF SumCounts(Counter(valid)) = 0
       THEN pc' = "failed" /\ err' = "No valid pixels"
       ELSE pc' = "counted" /\ UNCHANGED err
    /\ UNCHANGED <<alg, sel_tokens, class_input, flat, selected, valid, report, cloudVars>>

\* with open(out, "w") ...: the report
WriteReport ==
    /\ pc = "counted"
    /\ alg \in RasterAlgs
    /\ report' = FullReport(alg, cnt, total)
    /\ pc' = "done"
    /\ UNCHANGED <<alg, err, sel_tokens, class_input, flat, selected, valid, cnt, total, cloudVars>>

\* GeoBioToolPlugin.run_gui after both file dialogs: no selector, no check of
\* total before the file is opened
run_gui ==
    /\ pc = "start"
    /\ alg = "run_gui"
    /\ valid' = WindowFilter(flat)
    /\ cnt' = Counter(WindowFilter(flat))
    /\ total' = SumCounts(Counter(WindowFilter(flat)))
    /\ report' = GuiReport(Counter(WindowFilter(flat)), SumCounts(Counter(WindowFilter(flat))))
    /\ pc' = "done"
    /\ UNCHANGED <<alg, err, sel_tokens, class_input, flat, selected, cloudVars>>

(* Runs of parse_classes alone, over every selector of at most MaxTokens tokens. *)
InitParse ==
    \E a \in RasterAlgs, ts \in SeqsUpTo(Tokens, MaxTokens) : RasterStart(a, ts, <<0>>)

NextParse == ParseClasses

SpecParse == InitParse /\ [][NextParse]_vars

(* Raster runs of the three processing algorithms and of run_gui. *)
InitRaster ==
    \/ \E a \in RasterAlgs, ts \in SelectorCases,
          f \in SeqsUpTo(SampleVals, MaxSamples) \ {<<>>} : RasterStart(a, ts, f)
    \/ \E f \in SeqsUpTo(SampleVals, MaxSamples) \ {<<>>} : RasterStart("run_gui", <<>>, f)

NextRaster ==
    \/ ParseClasses
    \/ FilterSamples
    \/ CountClasses
    \/ WriteReport
    \/ run_gui

SpecRaster == InitRaster /\ [][NextRaster]_vars

-----------------------------------------------------------------------------
(* Point clouds.  A cloud is a set of records [x, y, z, n]: n points at     *)
(* (x, y, z), so that a cell of 20 points needs no 20 separate records.     *)

\* the occupancy threshold, and the default of GRID_SIZE
MinPoints == 20
DefaultGridSize == 20
\* in quarters of a unit: the 0.5-wide height bin, z0 = 3 and dz = 1
BinWidth == 2
Z0 == 12
DZ == 4

XVals == {0, 1, 2}
YVals == {0, 1}
ZVals == {4, 12, 13, 16}
NVals == {MinPoints - 1, MinPoints}
GridSizes == {1, 2}

Clusters == [x : XVals, y : YVals, z : ZVals, n : NVals]

DistinctPlaces(S) ==
    \A c, e \in S : (c.x = e.x /\ c.y = e.y /\ c.z = e.z) => c = e

RECURSIVE CloudsUpTo(_)
CloudsUpTo(k) ==
    IF k = 0 THEN {{}}
    ELSE LET smaller == CloudsUpTo(k - 1) IN
         smaller \cup {S \cup {c} : S \in smaller, c \in Clusters}

\* the non-empty clouds of at most MaxClusters clusters
Clouds == {S \in CloudsUpTo(MaxClusters) : S # {} /\ DistinctPlaces(S)}

RECURSIVE NPoints(_)
NPoints(S) ==
    IF S = {} THEN 0
    ELSE LET c == CHOOSE c \in S : TRUE IN c.n + NPoints(S \ {c})

RECURSIVE ZSum(_)
ZSum(S) ==
    IF S = {} THEN 0
    ELSE LET c == CHOOSE c \in S : TRUE IN c.n * c.z + ZSum(S \ {c})

RECURSIVE ZSqSum(_)
ZSqSum(S) ==
    IF S = {} THEN 0
    ELSE LET c == CHOOSE c \in S : TRUE IN c.n * c.z * c.z + ZSqSum(S \ {c})

MinOf(S) == CHOOSE m \in S : \A o \in S : m <= o
MaxOf(S) == CHOOSE m \in S : \A o \in S : m >= o

\* len(np.arange(start, stop, step)) for step > 0
arange_len(start, stop, step) ==
    IF stop <= start THEN 0 ELSE (stop - start + step - 1) \div step

\* np.histogram(values, bins=edges) for the edges first, first + width, ...
\* (nedges of them): nedges - 1 bins, each closed below and open above but
\* the last, which is closed above too; a single edge makes no bin.
histogram(S, first, width, nedges) ==
    [b \in 1..(IF nedges = 0 THEN 0 ELSE nedges - 1) |->
        NPoints({c \in S :
            /\ c.z >= first + (b - 1) * width
            /\ \/ c.z < first + b * width
               \/ b = nedges - 1 /\ c.z = first + b * width})]

NonZero(v) == v > 0

NaN == [nan |-> TRUE]

\* compute_fhd: the populated bins' counts stand for the entropy -sum(p ln p)
\* of p = count / h.sum(); NaN when no bin is populated.
compute_fhd(S) ==
    LET lo == MinOf({c.z : c \in S})
        hi == MaxOf({c.z : c \in S})
        h == histogram(S, lo, BinWidth, arange_len(lo, hi + BinWidth, BinWidth))
        p == SelectSeq(h, NonZero)
    IN IF Len(p) > 0 THEN [nan |-> FALSE, p |-> p, hsum |-> NPoints(S)] ELSE NaN

\* the entropy of a single populated bin is -1 * ln(1) = 0, that of two or
\* more populated bins is positive
FHDIsZero(m) == ~m.nan /\ Len(m.p) = 1

\* rumple: sd / mu, kept as n^2 var = n * sum z^2 - (sum z)^2 over n mu = sum z
rumple(S) ==
    IF ZSum(S) # 0
    THEN [nan |-> FALSE, nnvar |-> NPoints(S) * ZSqSum(S) - ZSum(S) * ZSum(S),
          nmu |-> ZSum(S)]
    ELSE NaN

RECURSIVE SeqSum(_)
SeqSum(q) == IF q = <<>> THEN 0 ELSE Head(q) + SeqSum(Tail(q))

DefinedPair(t) == t[1] > 0 /\ t[2] > 0

\* counts = [(above >= h).sum() for h in layers], layers = np.arange(z0,
\* max_h + dz, dz), for a non-empty above
layer_counts(above) ==
    LET max_h == MaxOf({c.z : c \in above})
        nl == arange_len(Z0, max_h + DZ, DZ)
    IN [i \in 1..nl |-> NPoints({c \in above : c.z >= Z0 + (i - 1) * DZ})]

\* a LAD loop that takes log(Nj / Ni)
lad_pairs_inverted(counts) ==
    [i \in 1..(Len(counts) - 1) |-> <<counts[i + 1], counts[i]>>]

\* the (Ni, Nj) of the LAD loop, i over range(len(counts) - 1)
lad_pairs(counts) ==
    [i \in 1..(Len(counts) - 1) |-> <<counts[i], counts[i + 1]>>]

\* compute_lai_vci with z0 = 3 and dz = 1.  LAI is the nansum of the terms
\* ln(N_i / N_(i+1)) with both counts positive, kept as the list of those
\* pairs; VCI is variation(hist_counts), kept as the histogram.
compute_lai_vci(S) ==
    LET above == {c \in S : c.z >= Z0} IN
    IF NPoints(above) < 1 THEN [lai |-> NaN, vci |-> NaN]
    ELSE LET max_h == MaxOf({c.z : c \in above})
             nl == arange_len(Z0, max_h + DZ, DZ)
             counts == layer_counts(above)
             pairs == lad_pairs(counts)
             hist == histogram(above, Z0, DZ, nl)
         IN [lai |-> [nan |-> FALSE, terms |-> SelectSeq(pairs, DefinedPair)],
             vci |-> IF SeqSum(hist) > 0 THEN [nan |-> FALSE, hist |-> hist] ELSE NaN]

-----------------------------------------------------------------------------
(* Cells and result tables of the three point-cloud algorithms. *)

CloudAlgs == {"fhd", "rumple", "lai_vci"}

xmin(S) == MinOf({c.x : c \in S})
xmax(S) == MaxOf({c.x : c \in S})
ymin(S) == MinOf({c.y : c \in S})
ymax(S) == MaxOf({c.y : c \in S})

\* np.floor((v - lo) / g) * g + lo, for v >= lo
GridKey(v, lo, g) == ((v - lo) \div g) * g + lo

\* df["xg"], df["yg"]: the cell's lower edge with the grid, the point's own
\* coordinate without it
xg(S, c, grid, g) == IF grid THEN GridKey(c.x, xmin(S), g) ELSE c.x
yg(S, c, grid, g) == IF grid THEN GridKey(c.y, ymin(S), g) ELSE c.y

\* the members of the group (yg, xg) of df.groupby(["yg", "xg"])
Group(S, grid, g, k) == {c \in S : yg(S, c, grid, g) = k[1] /\ xg(S, c, grid, g) = k[2]}

LexLess(k, l) == k[1] < l[1] \/ (k[1] = l[1] /\ k[2] < l[2])

RECURSIVE SortedKeys(_)
SortedKeys(K) ==
    IF K = {} THEN <<>>
    ELSE LET k == CHOOSE k \in K : \A l \in K : l = k \/ LexLess(k, l)
         IN <<k>> \o SortedKeys(K \ {k})

\* the group keys (yg, xg) in the order groupby yields them: sorted
GroupKeys(S, grid, g) ==
    SortedKeys({<<yg(S, c, grid, g), xg(S, c, grid, g)>> : c \in S})

\* x_edges = np.arange(xmin, xmax + grid, grid), 0-based
x_edge(S, g, i) == xmin(S) + i * g
y_edge(S, g, j) == ymin(S) + j * g
NumXEdges(S, g) == arange_len(xmin(S), xmax(S) + g, g)
NumYEdges(S, g) == arange_len(ymin(S), ymax(S) + g, g)

\* the cell of x_edges[i], y_edges[j] in the FHD loop: half-open on both axes
FHDCell(S, g, i, j) ==
    {c \in S : /\ c.x >= x_edge(S, g, i) /\ c.x < x_edge(S, g, i + 1)
               /\ c.y >= y_edge(S, g, j) /\ c.y < y_edge(S, g, j + 1)}

\* the (i, j) of the FHD double loop in loop order: i over range(len(x_edges)-1)
\* outside, j over range(len(y_edges)-1) inside
FHDLoop(S, g) ==
    LET nx == IF NumXEdges(S, g) = 0 THEN 0 ELSE NumXEdges(S, g) - 1
        ny == IF NumYEdges(S, g) = 0 THEN 0 ELSE NumYEdges(S, g) - 1
    IN [idx \in 1..(nx * ny) |-> <<(idx - 1) \div ny, (idx - 1) % ny>>]

Cell(xk, yk, pts) == [xk |-> xk, yk |-> yk, pts |-> pts]

\* the cells GeoBioToolFHDAlgorithm.processAlgorithm visits: those of the double
\* loop with the grid, the whole cloud as one cell without it
FHDCells(S, grid, g) ==
    IF grid
    THEN LET loop == FHDLoop(S, g) IN
         [idx \in DOMAIN loop |->
            Cell(x_edge(S, g, loop[idx][1]), y_edge(S, g, loop[idx][2]),
                 FHDCell(S, g, loop[idx][1], loop[idx][2]))]
    ELSE <<Cell(xmin(S), ymin(S), S)>>

\* the groups of df.groupby(["yg", "xg"]) (Rumple and LAI/VCI)
GroupCells(S, grid, g) ==
    LET keys == GroupKeys(S, grid, g) IN
    [r \in DOMAIN keys |-> Cell(keys[r][2], keys[r][1], Group(S, grid, g, keys[r]))]

Occupied(cell) == NPoints(cell.pts) >= MinPoints

Row(xk, yk, n, zsum, zmax, m) ==
    [xk |-> xk, yk |-> yk, n |-> n, zsum |-> zsum, zmax |-> zmax, m |-> m]

FHDRow(cell) ==
    Row(cell.xk, cell.yk, NPoints(cell.pts), ZSum(cell.pts),
        MaxOf({c.z : c \in cell.pts}), compute_fhd(cell.pts))

\* the cells of the FHD run that get a row: with the grid those of at least 20
\* points ("if len(cell) < 20: continue"), without it the one cell, untested
FHDKept(cs, grid) == IF grid THEN SelectSeq(cs, Occupied) ELSE cs

\* results of GeoBioToolFHDAlgorithm.processAlgorithm
FHDResults(cs, grid) ==
    [r \in DOMAIN FHDKept(cs, grid) |-> FHDRow(FHDKept(cs, grid)[r])]

\* df.groupby(["yg", "xg"]).apply(rumple): one row per group, no size test;
\* the table has the columns yg, xg and rumple_index only (n is the group's
\* size, zsum and zmax are not columns of it)
RumpleKept(cs) == cs

RumpleResults(cs) ==
    [r \in DOMAIN RumpleKept(cs) |->
        Row(cs[r].xk, cs[r].yk, NPoints(cs[r].pts), 0, 0, rumple(cs[r].pts))]

HasCanopy(cell) == Occupied(cell) /\ \E c \in cell.pts : c.z >= Z0

\* a records loop that also skips the groups with no point at or above z0
LAIVCIKeptWithCanopy(cs) == SelectSeq(cs, HasCanopy)

\* the records loop of GeoBioToolLAIVCIAlgorithm.processAlgorithm: groups of
\* fewer than 20 points are skipped; columns yg, xg, LAI, VCI
LAIVCIKept(cs) == SelectSeq(cs, Occupied)

LAIVCIResults(cs) ==
    [r \in DOMAIN LAIVCIKept(cs) |->
        LET cell == LAIVCIKept(cs)[r] IN
        Row(cell.xk, cell.yk, NPoints(cell.pts), 0, 0, compute_lai_vci(cell.pts))]

\* the sizes of the cells a metric function is called on
SizesOf(cs) == {NPoints(cs[r].pts) : r \in DOMAIN cs}

RECURSIVE SortedInts(_)
SortedInts(K) ==
    IF K = {} THEN <<>> ELSE <<MinOf(K)>> \o SortedInts(K \ {MinOf(K)})

\* pivot(index = y key, columns = x key, values = metric) and masked_invalid:
\* rows are the sorted y keys of the table, columns its sorted x keys; an entry
\* without a table row, or whose value is NaN (isnan[r] for row r), is masked
Heatmap(label, rows, isnan) ==
    LET ys == SortedInts({rows[r].yk : r \in DOMAIN rows})
        xs == SortedInts({rows[r].xk : r \in DOMAIN rows})
    IN [label |-> label, ys |-> ys, xs |-> xs,
        Z |-> [i \in DOMAIN ys, j \in DOMAIN xs |->
                 IF \E r \in DOMAIN rows :
                        rows[r].yk = ys[i] /\ rows[r].xk = xs[j] /\ ~isnan[r]
                 THEN LET r == CHOOSE r \in DOMAIN rows :
                                  rows[r].yk = ys[i] /\ rows[r].xk = xs[j]
                      IN [masked |-> FALSE, row |-> r]
                 ELSE [masked |-> TRUE, row |-> 0]]]

MetricNaN(rows) == [r \in DOMAIN rows |-> rows[r].m.nan]
LAINaN(rows) == [r \in DOMAIN rows |-> rows[r].m.lai.nan]
VCINaN(rows) == [r \in DOMAIN rows |-> rows[r].m.vci.nan]

\* whether the run draws heatmaps: FHD with the grid and a non-empty table,
\* Rumple and LAI/VCI with a non-empty table
DrawsHeatmap(a, grid, rows) ==
    IF a = "fhd" THEN grid /\ rows # <<>> ELSE rows # <<>>

Heatmaps(a, rows) ==
    CASE a = "fhd" -> <<Heatmap("FHD", rows, MetricNaN(rows))>>
      [] a = "rumple" -> <<Heatmap("Rumple Index", rows, MetricNaN(rows))>>
      [] a = "lai_vci" -> <<Heatmap("LAI", rows, LAINaN(rows)),
                            Heatmap("VCI", rows, VCINaN(rows))>>

-----------------------------------------------------------------------------
(* Point-cloud runs. *)

CloudStart(a, S, grid, g) ==
    /\ alg = a
    /\ pc = "start"
    /\ err = ""
    /\ sel_tokens = <<>>
    /\ class_input = <<>>
    /\ flat = <<>>
    /\ selected = NoneValue
    /\ valid = <<>>
    /\ cnt = <<>>
    /\ total = 0
    /\ report = NoReport
    /\ df = S
    /\ use_grid = grid
    /\ gsz = g
    /\ cells = <<>>
    /\ results = <<>>
    /\ evaluated = {}
    /\ csv = [written |-> FALSE, rows |-> <<>>]
    /\ png = <<>>

\* FHD: the zone-wise calculation
FHDCompute ==
    /\ pc = "start"
    /\ alg = "fhd"
    /\ cells' = FHDCells(df, use_grid, gsz)
    /\ results' = FHDResults(FHDCells(df, use_grid, gsz), use_grid)
    /\ evaluated' = SizesOf(FHDKept(FHDCells(df, use_grid, gsz), use_grid))
    /\ pc' = "computed"
    /\ UNCHANGED <<alg, err, rasterVars, df, use_grid, gsz, csv, png>>

\* Rumple: gridding and groupby(...).apply(rumple)
RumpleCompute ==
    /\ pc = "start"
    /\ alg = "rumple"
    /\ cells' = GroupCells(df, use_grid, gsz)
    /\ results' = RumpleResults(GroupCells(df, use_grid, gsz))
    /\ evaluated' = SizesOf(RumpleKept(GroupCells(df, use_grid, gsz)))
    /\ pc' = "computed"
    /\ UNCHANGED <<alg, err, rasterVars, df, use_grid, gsz, csv, png>>

\* LAI/VCI: gridding and the records loop
LAIVCICompute ==
    /\ pc = "start"
    /\ alg = "lai_vci"
    /\ cells' = GroupCells(df, use_grid, gsz)
    /\ results' = LAIVCIResults(GroupCells(df, use_grid, gsz))
    /\ evaluated' = SizesOf(LAIVCIKept(GroupCells(df, use_grid, gsz)))
    /\ pc' = "computed"
    /\ UNCHANGED <<alg, err, rasterVars, df, use_grid, gsz, csv, png>>

\* df_out.to_csv(out_csv, ...): written whatever the table holds
WriteCsv ==
    /\ pc = "computed"
    /\ alg \in CloudAlgs
    /\ csv' = [written |-> TRUE, rows |-> results]
    /\ pc' = "csv"
    /\ UNCHANGED <<alg, err, rasterVars, df, use_grid, gsz, cells, results, evaluated, png>>

\* the heatmap block
WriteHeatmaps ==
    /\ pc = "csv"
    /\ alg \in CloudAlgs
    /\ DrawsHeatmap(alg, use_grid, results)
    /\ png' = Heatmaps(alg, results)
    /\ pc' = "done"
    /\ UNCHANGED <<alg, err, rasterVars, df, use_grid, gsz, cells, results, evaluated, csv>>

\* the heatmap block skipped: the run returns with the CSV alone
ReturnWithoutHeatmap ==
    /\ pc = "csv"
    /\ alg \in CloudAlgs
    /\ ~DrawsHeatmap(alg, use_grid, results)
    /\ pc' = "done"
    /\ UNCHANGED <<alg, err, rasterVars, df, use_grid, gsz, cells, results, evaluated, csv, png>>

InitCloud ==
    \E a \in CloudAlgs, S \in Clouds :
        \/ \E g \in GridSizes : CloudStart(a, S, TRUE, g)
        \/ CloudStart(a, S, FALSE, DefaultGridSize)

NextCloud ==
    \/ FHDCompute
    \/ RumpleCompute
    \/ LAIVCICompute
    \/ WriteCsv
    \/ WriteHeatmaps
    \/ ReturnWithoutHeatmap

SpecCloud == InitCloud /\ [][NextCloud]_vars

\* Clouds for the layout of the result table and of the heatmap matrix: cells
\* far enough apart that the grid has two rows and two columns of cells
MaxGridClusters == 3
WideXVals == {0, 3}
WideYVals == {0, 3}
GridZVals == {4, 16}

WideClusters == [x : WideXVals, y : WideYVals, z : GridZVals, n : NVals]

RECURSIVE WideCloudsUpTo(_)
WideCloudsUpTo(k) ==
    IF k = 0 THEN {{}}
    ELSE LET smaller == WideCloudsUpTo(k - 1) IN
         smaller \cup {S \cup {c} : S \in smaller, c \in WideClusters}

WideClouds == {S \in WideCloudsUpTo(MaxGridClusters) : S # {} /\ DistinctPlaces(S)}

InitGrid ==
    \E a \in CloudAlgs, S \in WideClouds :
        \/ \E g \in GridSizes : CloudStart(a, S, TRUE, g)
        \/ CloudStart(a, S, FALSE, DefaultGridSize)

SpecGrid == InitGrid /\ [][NextCloud]_vars

\* Runs of LAI/VCI on one place with points at up to MaxHeights heights, tall
\* enough for several layer boundaries
MaxHeights == 3
TallZVals == {4, 12, 13, 16, 20, 21}
ColumnNVals == {1, MinPoints}

ColumnClusters == [x : {0}, y : {0}, z : TallZVals, n : ColumnNVals]

RECURSIVE ColumnsUpTo(_)
ColumnsUpTo(k) ==
    IF k = 0 THEN {{}}
    ELSE LET smaller == ColumnsUpTo(k - 1) IN
         smaller \cup {S \cup {c} : S \in smaller, c \in ColumnClusters}

Columns == {S \in ColumnsUpTo(MaxHeights) : S # {} /\ DistinctPlaces(S)}

InitLAI ==
    \E S \in Columns :
        \/ \E g \in GridSizes : CloudStart("lai_vci", S, TRUE, g)
        \/ CloudStart("lai_vci", S, FALSE, DefaultGridSize)

NextLAI ==
    \/ LAIVCICompute
    \/ WriteCsv
    \/ WriteHeatmaps
    \/ ReturnWithoutHeatmap

SpecLAI == InitLAI /\ [][NextLAI]_vars

-----------------------------------------------------------------------------
(* Claims about the class selector parser and the raster runs. *)

HasReversedRange ==
    \E i \in DOMAIN sel_tokens :
        sel_tokens[i].kind = "range" /\ sel_tokens[i].a > sel_tokens[i].b

\* C1: a selector holding a token a-b with a > b makes parse_classes fail with
\* a parse error: the run never gets past parsing and no set is returned.
C1_ReversedRangeFails ==
    HasReversedRange => (pc = "start" \/ (pc = "failed" /\ err = "ValueError"))

WellFormedSelector ==
    \A i \in DOMAIN sel_tokens :
        \/ sel_tokens[i].kind = "int"
        \/ sel_tokens[i].kind = "range" /\ sel_tokens[i].a <= sel_tokens[i].b

\* the classes the typed tokens denote: each listed integer, and every integer of
\* each inclusive range
DenotedClasses ==
    {n \in 0..12 :
        \E i \in DOMAIN sel_tokens :
            \/ sel_tokens[i].kind = "int" /\ n = sel_tokens[i].a
            \/ sel_tokens[i].kind = "range" /\ sel_tokens[i].a <= n /\ n <= sel_tokens[i].b}

\* C2: for a selector of bare integers and ranges a-b with a <= b, parse_classes
\* returns exactly the set of the listed integers and of every integer of each
\* inclusive range; for the empty selector it returns None.
C2_ParseClassesDenotes ==
    (pc # "start" /\ WellFormedSelector) =>
        /\ pc = "parsed"
        /\ selected = IF sel_tokens = <<>> THEN NoneValue ELSE SetValue(DenotedClasses)

C2_Witness ==
    /\ pc = "parsed"
    /\ WellFormedSelector
    /\ \E i, j \in DOMAIN sel_tokens :
          /\ sel_tokens[i].kind = "int"
          /\ sel_tokens[j].kind = "range" /\ sel_tokens[j].a < sel_tokens[j].b
          /\ sel_tokens[i].a < sel_tokens[j].a
    /\ ~selected.isNone
    /\ Cardinality(selected.elems) >= 3

RECURSIVE Occurrences(_, _)
Occurrences(s, v) ==
    IF s = <<>> THEN 0
    ELSE (IF Head(s) = v THEN 1 ELSE 0) + Occurrences(Tail(s), v)

\* C3: with a selector present the retained samples are exactly the samples that
\* are members of the selector set, without one exactly those with 0 < v < 255;
\* the frequency table counts each distinct retained value (every count >= 1,
\* the counts sum to the number of retained samples).
C3_RetainedSamples ==
    (alg \in RasterAlgs /\ pc \in {"filtered", "counted", "done"}) =>
        /\ valid = IF selected.isNone THEN WindowFilter(flat)
                   ELSE IsinFilter(flat, selected.elems)
        /\ pc \in {"counted", "done"} =>
              /\ \A i \in DOMAIN cnt :
                    cnt[i][2] >= 1 /\ cnt[i][2] = Occurrences(valid, cnt[i][1])
              /\ \A i, j \in DOMAIN cnt : i # j => cnt[i][1] # cnt[j][1]
              /\ total = Len(valid)

\* C4: a raster run whose retained sample sequence is empty (total = 0) ends in
\* an error and writes no report.
C4_EmptyTotalWritesNothing ==
    (pc = "done" \/ report.written) => total > 0

\* C5: the descending-by-proportion view is ordered by non-increasing proportion,
\* and categories of equal proportion appear in ascending category id.
C5_ProportionViewTieOrder ==
    (alg \in RasterAlgs /\ report.written) =>
        \A i, j \in DOMAIN report.by_prop :
            i < j =>
                \/ report.by_prop[i][2] > report.by_prop[j][2]
                \/ /\ report.by_prop[i][2] = report.by_prop[j][2]
                   /\ report.by_prop[i][1] < report.by_prop[j][1]

-----------------------------------------------------------------------------
(* Claims about the grid binner and the point-cloud runs. *)

\* the lower edge of the cell that floor((v - lo) / cell_size) names
FloorEdge(v, lo, g) == lo + ((v - lo) \div g) * g

\* C6: in grid mode every input point belongs to exactly one cell, the one
\* whose key is (floor((y - min_y) / cell_size), floor((x - min_x) / cell_size));
\* a point on a cell boundary, the maximum x or y included, is in the cell
\* whose lower edge is that coordinate.
C6_EveryPointInItsFloorCell ==
    (alg \in CloudAlgs /\ pc # "start" /\ use_grid) =>
        \A c \in df :
            /\ Cardinality({i \in DOMAIN cells : c \in cells[i].pts}) = 1
            /\ \A i \in DOMAIN cells :
                  c \in cells[i].pts =>
                      /\ cells[i].xk = FloorEdge(c.x, xmin(df), gsz)
                      /\ cells[i].yk = FloorEdge(c.y, ymin(df), gsz)

HasRow(rows, cell) ==
    \E r \in DOMAIN rows : rows[r].xk = cell.xk /\ rows[r].yk = cell.yk

HasHeatmapValue(maps, cell) ==
    \E h \in DOMAIN maps :
        \E i \in DOMAIN maps[h].ys, j \in DOMAIN maps[h].xs :
            /\ maps[h].ys[i] = cell.yk
            /\ maps[h].xs[j] = cell.xk
            /\ ~maps[h].Z[i, j].masked

\* C7: a cell with fewer than 20 points has no row in the table/CSV and no
\* value in the heatmap matrix; a cell with 20 points or more has a row.
C7_OccupancyThreshold ==
    (alg \in CloudAlgs /\ pc \in {"csv", "done"}) =>
        \A i \in DOMAIN cells :
            IF NPoints(cells[i].pts) < MinPoints
            THEN ~HasRow(csv.rows, cells[i]) /\ ~HasHeatmapValue(png, cells[i])
            ELSE HasRow(csv.rows, cells[i])

\* C8: without the grid every algorithm forms exactly one cell holding all
\* input points, reported only if it holds at least 20 points.
C8_WholeExtentOneCell ==
    (alg \in CloudAlgs /\ pc # "start" /\ ~use_grid) =>
        /\ Len(cells) = 1
        /\ cells[1].pts = df
        /\ Len(results) = (IF NPoints(df) >= MinPoints THEN 1 ELSE 0)

\* C9: compute_fhd gives 0, not NaN, for every cell of at least 20 z-values
\* with max(z) - min(z) < 0.5 (all in one height bin), equal values included.
C9_SingleBinFHDIsZero ==
    (alg = "fhd" /\ pc # "start") =>
        \A r \in DOMAIN results :
            \A i \in DOMAIN cells :
                ( /\ cells[i].xk = results[r].xk
                  /\ cells[i].yk = results[r].yk
                  /\ NPoints(cells[i].pts) >= MinPoints
                  /\ MaxOf({c.z : c \in cells[i].pts}) - MinOf({c.z : c \in cells[i].pts})
                        < BinWidth )
                => FHDIsZero(results[r].m)

\* C10: a point-cloud run in which no cell reaches the occupancy threshold
\* ends in an error and writes neither the CSV nor a heatmap.
C10_NoSurvivorNoOutput ==
    ( /\ alg \in CloudAlgs
      /\ pc # "start"
      /\ \A i \in DOMAIN cells : NPoints(cells[i].pts) < MinPoints )
    => (~csv.written /\ png = <<>> /\ pc # "done")


\* the grid key of a table row: (row, col) = (y key, x key)
KeyOf(row) == <<row.yk, row.xk>>

\* C11: the result table of every point-cloud run has one row for every
\* surviving cell (a visited cell of at least 20 points), no key twice, and its
\* rows are in strictly ascending order of the grid key (y first, then x).
C11_RowsRowMajor ==
    (alg \in CloudAlgs /\ csv.written) =>
        /\ \A r, s \in DOMAIN csv.rows :
              r < s => LexLess(KeyOf(csv.rows[r]), KeyOf(csv.rows[s]))
        /\ \A i \in DOMAIN cells :
              Occupied(cells[i]) =>
                  \E r \in DOMAIN csv.rows :
                      KeyOf(csv.rows[r]) = <<cells[i].yk, cells[i].xk>>


\* the table without its row r
WithoutRow(rows, r) ==
    [k \in 1..(Len(rows) - 1) |-> IF k < r THEN rows[k] ELSE rows[k + 1]]

NoCanopy(cell) == Occupied(cell) /\ \A c \in cell.pts : c.z < Z0

SameOrigin(S, T) == xmin(S) = xmin(T) /\ ymin(S) = ymin(T)

\* C12: in a finished LAI/VCI run a cell of at least 20 points none of which is
\* at or above z0 has a row whose LAI and VCI are both NaN, the run has no
\* error, every other row holds the LAI/VCI of its own cell's points, and the
\* run on the cloud without that cell's points (same grid origin) gives the
\* same table minus that row.
C12_NullCellKeepsRow ==
    (alg = "lai_vci" /\ pc = "done") =>
        /\ err = ""
        /\ csv.written
        /\ \A i \in DOMAIN cells :
              NoCanopy(cells[i]) =>
                  \E r \in DOMAIN csv.rows :
                      /\ KeyOf(csv.rows[r]) = <<cells[i].yk, cells[i].xk>>
                      /\ csv.rows[r].m.lai.nan
                      /\ csv.rows[r].m.vci.nan
                      /\ \A s \in DOMAIN csv.rows \ {r} :
                            \E j \in DOMAIN cells :
                                /\ KeyOf(csv.rows[s]) = <<cells[j].yk, cells[j].xk>>
                                /\ csv.rows[s].m = compute_lai_vci(cells[j].pts)
                      /\ LET rest == df \ cells[i].pts IN
                         (rest # {} /\ (use_grid => SameOrigin(rest, df))) =>
                             LAIVCIResults(GroupCells(rest, use_grid, gsz))
                                 = WithoutRow(csv.rows, r)

\* a finished LAI/VCI run with a null row next to a row with a defined LAI
C12_Witness ==
    /\ alg = "lai_vci"
    /\ pc = "done"
    /\ \E i \in DOMAIN cells : NoCanopy(cells[i])
    /\ \E r, s \in DOMAIN csv.rows :
          /\ csv.rows[r].m.lai.nan
          /\ csv.rows[r].m.vci.nan
          /\ ~csv.rows[s].m.lai.nan
          /\ ~csv.rows[s].m.vci.nan


\* every category of the frequency table c has the same count
UniformCounts(c) == \A i, j \in DOMAIN c : c[i][2] = c[j][2]

\* C13: in a written report over a frequency table of n >= 1 categories of
\* equal count the Simpson index is 1 - 1/n, that is
\* n * (total^2 - sum of squared counts) = (n - 1) * total^2; with a single
\* category the Simpson index and the Shannon index are both 0.
C13_UniformSimpson ==
    (report.written /\ Len(cnt) >= 1 /\ UniformCounts(cnt)) =>
        /\ report.si_idx.present =>
              /\ Len(cnt) * (report.si_idx.tsq - report.si_idx.sumsq)
                     = (Len(cnt) - 1) * report.si_idx.tsq
              /\ Len(cnt) = 1 =>
                     (report.si_idx.tsq > 0 /\ report.si_idx.sumsq = report.si_idx.tsq)
        /\ (report.s_idx.present /\ Len(cnt) = 1) => ShannonIsZero(report.s_idx)

\* a report with a Simpson index over two categories of two pixels each
C13_Witness ==
    /\ report.written
    /\ report.si_idx.present
    /\ UniformCounts(cnt)
    /\ Len(cnt) = 2
    /\ cnt[1][2] = 2


\* the grid keys (y, x) of the surviving cells: the visited cells of at least
\* 20 points
SurvivingKeys == {<<cells[i].yk, cells[i].xk>> : i \in {k \in DOMAIN cells : Occupied(cells[k])}}

\* C14: every heatmap matrix has its rows indexed by the ascending unique y
\* keys and its columns by the ascending unique x keys of the surviving cells,
\* and every (row, column) with no surviving cell is masked.
C14_HeatmapMasksMissing ==
    (alg \in CloudAlgs /\ pc = "done") =>
        \A h \in DOMAIN png :
            /\ png[h].ys = SortedInts({k[1] : k \in SurvivingKeys})
            /\ png[h].xs = SortedInts({k[2] : k \in SurvivingKeys})
            /\ \A i \in DOMAIN png[h].ys, j \in DOMAIN png[h].xs :
                  <<png[h].ys[i], png[h].xs[j]>> \notin SurvivingKeys
                      => png[h].Z[i, j].masked


\* C15: in every point-cloud run (grid and whole-extent; FHD, Rumple, LAI/VCI)
\* the occupancy check comes before the metric: no metric function is ever
\* evaluated on a cell of fewer than 20 points.
C15_MetricOnlyOnOccupied ==
    alg \in CloudAlgs => \A n \in evaluated : n >= MinPoints


\* the frequency table algorithm a builds from the samples f under the parsed
\* selector sel, as a multiset (class order), and the outcome of its run
TableOf(a, f, sel) == SortByClass(Counter(FilterFor(a, f, sel)))

OutcomeOf(a, f, sel) ==
    IF SumCounts(Counter(FilterFor(a, f, sel))) = 0
    THEN [failed |-> TRUE, table |-> <<>>]
    ELSE [failed |-> FALSE, table |-> TableOf(a, f, sel)]

\* C16: for the same selector string and the same samples the combined, the
\* Shannon and the Simpson algorithm retain the same multiset of samples and
\* reach the same outcome: the samples the running algorithm retained, its
\* frequency table and its 'no valid pixels' error are those each of the three
\* would produce.
C16_SameRetainedAndOutcome ==
    (alg \in RasterAlgs /\ pc \in {"filtered", "counted", "done"}) =>
        \A a \in RasterAlgs :
            /\ TableOf(a, flat, selected) = SortByClass(Counter(valid))
            /\ OutcomeOf(a, flat, selected) = OutcomeOf(alg, flat, selected)
            /\ pc = "done" => ~OutcomeOf(a, flat, selected).failed


\* the points of pts at or above the height h
CountAtOrAbove(pts, h) == NPoints({c \in pts : c.z >= h})

\* the layer boundaries of a cell: z0, z0 + dz, ... below max_h + dz, with
\* max_h the greatest height at or above z0
Boundaries(pts) ==
    LET max_h == MaxOf({c.z : c \in {e \in pts : e.z >= Z0}}) IN
    {h \in Z0..(max_h + DZ - 1) : (h - Z0) % DZ = 0}

\* the highest boundary with a point at or above it
TopBoundary(pts) ==
    MaxOf({h \in Boundaries(pts) : CountAtOrAbove(pts, h) > 0})

RECURSIVE ProductOf(_, _)
ProductOf(terms, k) ==
    IF terms = <<>> THEN 1 ELSE terms[1][k] * ProductOf(Tail(terms), k)

\* C17: for a cell with a point at or above z0 the counts N(h) do not increase
\* along the boundaries, the pairs with a defined LAD are a prefix of the pair
\* sequence, the LAI is ln(N(z0) / N(h_m)) with h_m the highest boundary of
\* positive count (the product of the ratios Ni/Nj is N(z0)/N(h_m)), it is at
\* least 0, and it is 0, not NaN, when there is a single boundary.
C17_LAITelescopes ==
    (alg = "lai_vci" /\ pc # "start") =>
        \A r \in DOMAIN results :
            \A i \in DOMAIN cells :
                (/\ KeyOf(results[r]) = <<cells[i].yk, cells[i].xk>>
                 /\ \E c \in cells[i].pts : c.z >= Z0) =>
                LET pts == cells[i].pts
                    counts == layer_counts({c \in pts : c.z >= Z0})
                    pairs == lad_pairs(counts)
                    lai == results[r].m.lai
                IN /\ Len(counts) = Cardinality(Boundaries(pts))
                   /\ \A k \in DOMAIN counts :
                         counts[k] = CountAtOrAbove(pts, Z0 + (k - 1) * DZ)
                   /\ \A k, l \in DOMAIN counts : k < l => counts[k] >= counts[l]
                   /\ \E m \in 0..Len(pairs) :
                         \A k \in DOMAIN pairs : DefinedPair(pairs[k]) <=> k <= m
                   /\ ~lai.nan
                   /\ ProductOf(lai.terms, 1) * CountAtOrAbove(pts, TopBoundary(pts))
                         = ProductOf(lai.terms, 2) * CountAtOrAbove(pts, Z0)
                   /\ ProductOf(lai.terms, 1) >= ProductOf(lai.terms, 2)
                   /\ Len(counts) = 1 => lai.terms = <<>>

\* a row whose LAI has two defined layers with different ratios
C17_Witness ==
    /\ alg = "lai_vci"
    /\ pc = "done"
    /\ \E r \in DOMAIN results :
          /\ ~results[r].m.lai.nan
          /\ Len(results[r].m.lai.terms) = 2
          /\ results[r].m.lai.terms[1][1] > results[r].m.lai.terms[1][2]
          /\ results[r].m.lai.terms[2][1] > results[r].m.lai.terms[2][2]

====
